---- MODULE Spec2Model ----
(***************************************************************************)
(* Tamper-evident event ledger of openexecution-demo: the canonical        *)
(* serializer, the hash chain (class Chain), the certificate issuer        *)
(* (class CertIssuer) and the generated standalone verifier (verify.js),   *)
(* as they are written in the live dashboard driver.                       *)
(*                                                                         *)
(* JSON values are tagged records; a JS object is the sequence of its      *)
(* <<key, value>> pairs in insertion order.  A JS string is a text: the    *)
(* sequence of its pieces (T("abc") is the text abc), concatenated with \o *)
(* exactly where the code concatenates.  SHA-256 and Ed25519 are symbolic  *)
(* and collision-free: a digest is the text sha256<data>, a signature the  *)
(* text ed25519<key|data>; they stand for the hex text of the real ones.   *)
(***************************************************************************)
EXTENDS Integers, Sequences, FiniteSets, TLC

VARIABLES chain, now, cert, sseClients, lastOp, artifacts, report, canon, tasks, demo

vars == <<chain, now, cert, sseClients, lastOp, artifacts, report, canon, tasks, demo>>

(* ---------------------------- bounds ---------------------------------- *)
MaxEvents == 3
MaxTime == 1
MaxClients == 1
\* requests POSTed to /instruction in one run
MaxPosts == 3

(* ------------------------- JSON values -------------------------------- *)
\* the text of a string literal
T(s) == <<s>>

JNull == [t |-> "null"]
JBool(b) == [t |-> "bool", b |-> b]
JNum(n) == [t |-> "num", n |-> n]
JStr(s) == [t |-> "str", s |-> s]
JArr(a) == [t |-> "arr", a |-> a]
JObj(o) == [t |-> "obj", o |-> o]
\* JS values JSON has no encoding for
JNaN == [t |-> "nan"]
JInfinity == [t |-> "inf"]
JUndefined == [t |-> "undefined"]
JFunction == [t |-> "function"]
\* a reference to an object that encloses the place where it stands
JCycle == [t |-> "cycle"]

Range(s) == {s[i] : i \in 1..Len(s)}

HasKey(obj, k) == \E i \in 1..Len(obj.o) : obj.o[i][1] = k

\* obj[k] for a key the object has
Get(obj, k) == obj.o[CHOOSE i \in 1..Len(obj.o) : obj.o[i][1] = k][2]

\* obj[k] = v on a stored object: an existing key keeps its position
Put(obj, k, v) ==
    IF HasKey(obj, k)
    THEN JObj([i \in 1..Len(obj.o) |->
                 IF obj.o[i][1] = k THEN <<k, v>> ELSE obj.o[i]])
    ELSE JObj(Append(obj.o, <<k, v>>))

\* const { k1, k2, ...rest } = obj : the remaining pairs, in order
Rest(obj, ks) == JObj(SelectSeq(obj.o, LAMBDA p : p[1] \notin ks))

\* Array.prototype.join
RECURSIVE join(_, _)
join(strs, sep) ==
    IF Len(strs) = 0 THEN << >>
    ELSE IF Len(strs) = 1 THEN strs[1]
    ELSE strs[1] \o sep \o join(Tail(strs), sep)

\* String.prototype.repeat
RECURSIVE repeat(_, _)
repeat(s, n) == IF n = 0 THEN << >> ELSE s \o repeat(s, n - 1)

\* The property names of the program, in the order String comparison
\* (Array.prototype.sort without comparator) puts them.
KeyOrder ==
    << "agent_name", "algorithm", "approved_by", "authorization_event", "chain_hash",
       "chain_id", "event_count", "event_hash", "event_type", "instruction", "issued_at",
       "issuer", "merged_to", "organization", "owner_user_id", "payload", "pr_number",
       "prev_hash", "public_key", "scope", "seq", "sequence", "signature", "tampered",
       "timestamp", "verdict", "version", "x", "y" >>

\* Object.keys(obj) as they are, in insertion order
sortedKeys_insertionOrder(obj) == [i \in 1..Len(obj.o) |-> obj.o[i][1]]

\* Object.keys(obj).sort()
sortedKeys(obj) == SelectSeq(KeyOrder, LAMBDA k : HasKey(obj, k))

\* JSON.stringify of a value that is not an object, as canonicalize uses it
\* (the texts of the model need no escapes).  NaN and Infinity are written
\* null.  For undefined and a function JSON.stringify returns undefined:
\* the '+' of canonicalize makes the text undefined of it, which is what
\* the model keeps.
stringify(v) ==
    CASE v.t = "null" -> T("null")
      [] v.t \in {"nan", "inf"} -> T("null")
      [] v.t \in {"undefined", "function"} -> T("undefined")
      [] v.t = "bool" -> (IF v.b THEN T("true") ELSE T("false"))
      [] v.t = "num"  -> T(ToString(v.n))
      [] v.t = "str"  -> T("\"") \o v.s \o T("\"")

\* canonicalize(obj).  An array element for which canonicalize returns
\* undefined is joined as the empty string.
RECURSIVE canonicalize(_)
canonicalize(obj) ==
    IF obj.t \notin {"arr", "obj"} THEN stringify(obj)
    ELSE IF obj.t = "arr"
    THEN T("[") \o join([i \in 1..Len(obj.a) |->
                          IF obj.a[i].t \in {"undefined", "function"} THEN << >>
                          ELSE canonicalize(obj.a[i])], T(",")) \o T("]")
    ELSE LET ks == sortedKeys(obj)
         IN T("{") \o join([i \in 1..Len(ks) |->
                             stringify(JStr(T(ks[i]))) \o T(":") \o canonicalize(Get(obj, ks[i]))],
                          T(",")) \o T("}")

\* canonicalize of the export script: null and undefined first, then the
\* other values that are not objects, arrays by obj.map(item => ...),
\* objects by sortedKeys and pairs
RECURSIVE canonicalize_export(_)
canonicalize_export(obj) ==
    IF obj.t \in {"null", "undefined"} THEN stringify(obj)
    ELSE IF obj.t \notin {"arr", "obj"} THEN stringify(obj)
    ELSE IF obj.t = "arr"
    THEN T("[") \o join([i \in 1..Len(obj.a) |->
                          IF obj.a[i].t \in {"undefined", "function"} THEN << >>
                          ELSE canonicalize_export(obj.a[i])], T(",")) \o T("]")
    ELSE LET keys == sortedKeys(obj)
             pairs == [i \in 1..Len(keys) |->
                         stringify(JStr(T(keys[i]))) \o T(":")
                         \o canonicalize_export(Get(obj, keys[i]))]
         IN T("{") \o join(pairs, T(",")) \o T("}")

\* canonicalize of the v2 orchestrator writing the members as they were
\* inserted
RECURSIVE canonicalize_v2_unsorted(_)
canonicalize_v2_unsorted(obj) ==
    IF obj.t \notin {"arr", "obj"} THEN stringify(obj)
    ELSE IF obj.t = "arr"
    THEN T("[") \o join([i \in 1..Len(obj.a) |->
                          IF obj.a[i].t \in {"undefined", "function"} THEN << >>
                          ELSE canonicalize_v2_unsorted(obj.a[i])], T(",")) \o T("]")
    ELSE LET pairs == [i \in 1..Len(obj.o) |->
                         stringify(JStr(T(obj.o[i][1]))) \o T(":")
                         \o canonicalize_v2_unsorted(obj.o[i][2])]
         IN T("{") \o join(pairs, T(",")) \o T("}")

\* canonicalize of the v2 orchestrator, the same text as the export script's
RECURSIVE canonicalize_v2(_)
canonicalize_v2(obj) ==
    IF obj.t \in {"null", "undefined"} THEN stringify(obj)
    ELSE IF obj.t \notin {"arr", "obj"} THEN stringify(obj)
    ELSE IF obj.t = "arr"
    THEN T("[") \o join([i \in 1..Len(obj.a) |->
                          IF obj.a[i].t \in {"undefined", "function"} THEN << >>
                          ELSE canonicalize_v2(obj.a[i])], T(",")) \o T("]")
    ELSE LET keys == sortedKeys(obj)
             pairs == [i \in 1..Len(keys) |->
                         stringify(JStr(T(keys[i]))) \o T(":")
                         \o canonicalize_v2(Get(obj, keys[i]))]
         IN T("{") \o join(pairs, T(",")) \o T("}")

\* canonicalize as the generated verify.js defines it, the text of the
\* driver's function
RECURSIVE canonicalize_verifyJs(_)
canonicalize_verifyJs(obj) ==
    IF obj.t \notin {"arr", "obj"} THEN stringify(obj)
    ELSE IF obj.t = "arr"
    THEN T("[") \o join([i \in 1..Len(obj.a) |->
                          IF obj.a[i].t \in {"undefined", "function"} THEN << >>
                          ELSE canonicalize_verifyJs(obj.a[i])], T(",")) \o T("]")
    ELSE LET ks == sortedKeys(obj)
         IN T("{") \o join([i \in 1..Len(ks) |->
                             stringify(JStr(T(ks[i]))) \o T(":")
                             \o canonicalize_verifyJs(Get(obj, ks[i]))],
                          T(",")) \o T("}")

\* the copies of canonicalize in the repository
Copies == {"driver", "export", "v2", "verify.js"}
canonicalizeOf(copy, obj) ==
    CASE copy = "driver" -> canonicalize(obj)
      [] copy = "export" -> canonicalize_export(obj)
      [] copy = "v2" -> canonicalize_v2(obj)
      [] copy = "verify.js" -> canonicalize_verifyJs(obj)

sha256(data) == T("sha256<") \o data \o T(">")

GENESIS == repeat(T("0"), 64)

\* JSON.stringify: members in insertion order, no whitespace
RECURSIVE JSONstringify(_)
JSONstringify(v) ==
    IF v.t \notin {"arr", "obj"} THEN stringify(v)
    ELSE IF v.t = "arr"
    THEN T("[") \o join([i \in 1..Len(v.a) |-> JSONstringify(v.a[i])], T(",")) \o T("]")
    ELSE T("{") \o join([i \in 1..Len(v.o) |->
                          stringify(JStr(T(v.o[i][1]))) \o T(":") \o JSONstringify(v.o[i][2])],
                       T(",")) \o T("}")

\* new Date().toISOString() at clock reading n
toISOString(n) == T("2026-01-01T00:00:0" \o ToString(n) \o ".000Z")

\* the value refers back to an object that encloses it, at some depth
RECURSIVE HasCycle(_)
HasCycle(v) ==
    CASE v.t = "cycle" -> TRUE
      [] v.t = "arr" -> \E i \in 1..Len(v.a) : HasCycle(v.a[i])
      [] v.t = "obj" -> \E i \in 1..Len(v.o) : HasCycle(v.o[i][2])
      [] OTHER -> FALSE

(* --------------------------- Ed25519 ---------------------------------- *)
Issuers == {"issuer-1", "issuer-2"}

\* crypto.generateKeyPairSync('ed25519') of the issuer constructed as i
generateKeyPairSync(i) == [publicKey |-> "pub:" \o i, privateKey |-> "priv:" \o i]

\* the public key that belongs to a private key
publicOf(priv) ==
    CHOOSE pk \in {generateKeyPairSync(i).publicKey : i \in Issuers} :
        \E i \in Issuers : generateKeyPairSync(i) = [publicKey |-> pk, privateKey |-> priv]

\* sign returning a signature cut short
sign_truncated(data, priv) == T("ed25519<" \o publicOf(priv) \o "|") \o data

\* crypto.sign(null, data, privateKey).toString('hex')
sign(data, priv) == T("ed25519<" \o publicOf(priv) \o "|") \o data \o T(">")

\* crypto.verify(null, data, publicKey, signature)
verifySig(data, pub, sig) == sig = T("ed25519<" \o pub \o "|") \o data \o T(">")

\* publicKey.export({type:'spki', format:'der'}).toString('hex')
exportSpki(pub) == T("spki:" \o pub)

(* ------------------------- inputs of append --------------------------- *)
EmptyPayload == JObj(<<>>)
PayloadX1 == JObj(<< <<"x", JNum(1)>> >>)
PayloadY2 == JObj(<< <<"y", JNum(2)>> >>)
\* a payload with a property that refers to the payload itself
PayloadCyclic == JObj(<< <<"x", JCycle>> >>)
\* opts: ownerId "" stands for an absent (falsy) ownerId
NoOpts == [authorization |-> FALSE, ownerId |-> ""]
\* the calls a driver makes: (type, agent, org, payload, opts)
AppendInputs ==
    { [type |-> "created", agent |-> "openexecution-platform", org |-> "OpenExecution",
       payload |-> EmptyPayload, opts |-> NoOpts],
      [type |-> "updated", agent |-> "patch-o-matic", org |-> "CyberSafe Inc.",
       payload |-> PayloadX1, opts |-> NoOpts],
      [type |-> "pr_approved", agent |-> "review-bot", org |-> "CyberSafe Inc.",
       payload |-> PayloadY2, opts |-> [authorization |-> TRUE, ownerId |-> "review-bot-1"]] }

(* ------------------------- asynchronous tasks ------------------------- *)
\* async functions that call append on the one chain between awaits; a
\* task is suspended at an await or has been resumed and runs
Tasks == {"task-1", "task-2", "task-3"}

(* ------------------------------ runDemo ------------------------------ *)
\* where runDemo stands and what it holds: its position, the aiApproved
\* constant (read only after the review set it), the module variable
\* instructionResolve (TRUE: a resolve function is stored), the promise of
\* waitForInstruction, and the number of requests POSTed so far
DemoStart ==
    [pc |-> "start", aiApproved |-> FALSE, instructionResolve |-> FALSE,
     promise |-> [state |-> "none", value |-> ""], posts |-> 0]

(* ------------------------------ SSE ----------------------------------- *)
Clients == {"c1", "c2"}

\* push(data): sseClients.forEach(r => r.write(msg)).  failAt = 0: every
\* write returns; failAt = k: the write to the k-th client throws, and the
\* exception leaves forEach and push.
push(data, failAt) ==
    [msg |-> T("data: ") \o JSONstringify(data) \o T("\n\n"),
     to |-> IF failAt = 0 THEN sseClients ELSE SubSeq(sseClients, 1, failAt - 1),
     threw |-> failAt # 0]

(* ----------------------------- Chain ---------------------------------- *)
ChainId == "cve-2026-4821-remediation"

\* constructor(id)
NewChain(id) == [id |-> id, events |-> <<>>, status |-> "active", chainHash |-> JNull]

\* the event object and hash computed by append
appendHash(seq, type, agent, ts, payload, prev) ==
    sha256(canonicalize(JObj(<< <<"seq", JNum(seq)>>, <<"event_type", JStr(T(type))>>,
                                <<"agent_name", JStr(T(agent))>>, <<"timestamp", JStr(ts)>>,
                                <<"payload", payload>>, <<"prev_hash", JStr(prev)>> >>)))

\* append linking every later event to the first one instead of the last
appendEvent_firstAsPrev(c, type, agent, org, payload, opts, ts) ==
    LET seq == Len(c.events) + 1
        prev == IF seq = 1 THEN GENESIS ELSE Get(c.events[1], "event_hash").s
        hash == appendHash(seq, type, agent, ts, payload, prev)
    IN JObj(<< <<"sequence", JNum(seq)>>, <<"event_type", JStr(T(type))>>,
               <<"agent_name", JStr(T(agent))>>, <<"organization", JStr(T(org))>>,
               <<"timestamp", JStr(ts)>>, <<"payload", payload>>,
               <<"event_hash", JStr(hash)>>, <<"prev_hash", JStr(prev)>> >>
            \o (IF opts.authorization
                THEN << <<"authorization_event", JBool(TRUE)>>,
                        <<"owner_user_id",
                          JStr(T(IF opts.ownerId # "" THEN opts.ownerId ELSE "owner-1"))>> >>
                ELSE << >>))

\* append numbering the events from 0
appendEvent_zeroBased(c, type, agent, org, payload, opts, ts) ==
    LET seq == Len(c.events)
        prev == IF seq = 0 THEN GENESIS ELSE Get(c.events[seq], "event_hash").s
        hash == appendHash(seq, type, agent, ts, payload, prev)
    IN JObj(<< <<"sequence", JNum(seq)>>, <<"event_type", JStr(T(type))>>,
               <<"agent_name", JStr(T(agent))>>, <<"organization", JStr(T(org))>>,
               <<"timestamp", JStr(ts)>>, <<"payload", payload>>,
               <<"event_hash", JStr(hash)>>, <<"prev_hash", JStr(prev)>> >>
            \o (IF opts.authorization
                THEN << <<"authorization_event", JBool(TRUE)>>,
                        <<"owner_user_id",
                          JStr(T(IF opts.ownerId # "" THEN opts.ownerId ELSE "owner-1"))>> >>
                ELSE << >>))

appendEvent(c, type, agent, org, payload, opts, ts) ==
    LET seq == Len(c.events) + 1
        prev == IF seq = 1 THEN GENESIS ELSE Get(c.events[seq - 1], "event_hash").s
        hash == appendHash(seq, type, agent, ts, payload, prev)
    IN JObj(<< <<"sequence", JNum(seq)>>, <<"event_type", JStr(T(type))>>,
               <<"agent_name", JStr(T(agent))>>, <<"organization", JStr(T(org))>>,
               <<"timestamp", JStr(ts)>>, <<"payload", payload>>,
               <<"event_hash", JStr(hash)>>, <<"prev_hash", JStr(prev)>> >>
            \o (IF opts.authorization
                THEN << <<"authorization_event", JBool(TRUE)>>,
                        <<"owner_user_id",
                          JStr(T(IF opts.ownerId # "" THEN opts.ownerId ELSE "owner-1"))>> >>
                ELSE << >>))

\* append pushing the event before its hash is computed, so that the event
\* stays in the chain when the hashing throws
AppendOp_pushesFirst(type, agent, org, payload, opts, failAt) ==
    /\ Len(chain.events) < MaxEvents
    /\ LET hashable == IF HasCycle(payload) THEN EmptyPayload ELSE payload
           ev == appendEvent(chain, type, agent, org, hashable, opts, toISOString(now))
           p == push(JObj(<< <<"type", JStr(T("chain"))>>, <<"seq", Get(ev, "sequence")>>,
                             <<"eventType", JStr(T(type))>>, <<"agent", JStr(T(agent))>>,
                             <<"org", JStr(T(org))>>, <<"hash", Get(ev, "event_hash")>>,
                             <<"prevHash", Get(ev, "prev_hash")>> >>), failAt)
       IN /\ chain' = [chain EXCEPT !.events = Append(@, ev)]
          /\ lastOp' = IF HasCycle(payload)
                       THEN [op |-> "append", threw |-> TRUE, error |-> "RangeError",
                             ret |-> JNull, pushed |-> [msg |-> << >>, to |-> << >>, threw |-> FALSE],
                             was |-> chain.status]
                       ELSE [op |-> "append", threw |-> p.threw,
                             error |-> IF p.threw THEN "write" ELSE "",
                             ret |-> IF p.threw THEN JNull ELSE ev, pushed |-> p,
                             was |-> chain.status]
    /\ UNCHANGED <<canon, now, cert, sseClients, artifacts, report>>

\* Chain.append(type, agent, org, payload, opts); what the calling task
\* does next is the caller's part of the step.  On a payload that refers
\* back to itself canonicalize recurses without end and the engine throws
\* RangeError out of append, before events.push and push are reached.
AppendOp(type, agent, org, payload, opts, failAt) ==
    /\ Len(chain.events) < MaxEvents
    /\ IF HasCycle(payload)
       THEN /\ chain' = chain
            /\ lastOp' = [op |-> "append", threw |-> TRUE, error |-> "RangeError",
                          ret |-> JNull, pushed |-> [msg |-> << >>, to |-> << >>, threw |-> FALSE],
                          was |-> chain.status]
       ELSE LET ev == appendEvent(chain, type, agent, org, payload, opts, toISOString(now))
                p == push(JObj(<< <<"type", JStr(T("chain"))>>, <<"seq", Get(ev, "sequence")>>,
                                  <<"eventType", JStr(T(type))>>, <<"agent", JStr(T(agent))>>,
                                  <<"org", JStr(T(org))>>, <<"hash", Get(ev, "event_hash")>>,
                                  <<"prevHash", Get(ev, "prev_hash")>> >>), failAt)
            IN /\ chain' = [chain EXCEPT !.events = Append(@, ev)]
               /\ lastOp' = [op |-> "append", threw |-> p.threw,
                             error |-> IF p.threw THEN "write" ELSE "",
                             ret |-> IF p.threw THEN JNull ELSE ev, pushed |-> p,
                             was |-> chain.status]
    /\ UNCHANGED <<canon, now, cert, sseClients, artifacts, report>>

\* resolve leaving out the last event of the chain
aggregateHash_dropsLast(events) ==
    sha256(join([i \in 1..(Len(events) - 1) |-> Get(events[i], "event_hash").s], T(":")))

\* the aggregate hash computed by resolve
aggregateHash(events) ==
    sha256(join([i \in 1..Len(events) |-> Get(events[i], "event_hash").s], T(":")))

\* resolve hashing the chain id in front of the event hashes
resolve_hashesChainId(c) ==
    [c EXCEPT !.chainHash = JStr(sha256(T(c.id) \o T(":") \o
                                  join([i \in 1..Len(c.events) |->
                                         Get(c.events[i], "event_hash").s], T(":")))),
              !.status = "resolved"]

\* resolve setting the chain_hash and leaving the status as it is
resolve_keepsStatus(c) ==
    [c EXCEPT !.chainHash = JStr(aggregateHash(c.events))]

\* the chain as resolve() leaves it
resolve(c) ==
    [c EXCEPT !.chainHash = JStr(aggregateHash(c.events)), !.status = "resolved"]

\* Chain.resolve()
ResolveOp ==
    /\ chain' = resolve(chain)
    /\ lastOp' = [op |-> "resolve", threw |-> FALSE, error |-> "",
                  ret |-> resolve(chain).chainHash, was |-> chain.status]
    /\ UNCHANGED <<demo, tasks, canon, now, cert, sseClients, artifacts, report>>

(* --------------------------- CertIssuer ------------------------------- *)
\* constructor(): pub, priv, pubHex of the issuer constructed as i
CertIssuer(i) ==
    LET kp == generateKeyPairSync(i)
    IN [pub |-> kp.publicKey, priv |-> kp.privateKey, pubHex |-> exportSpki(kp.publicKey)]

\* issue putting the private key into the certificate
issue_embedsPrivateKey(i, c, n) ==
    LET data == JObj(<< <<"version", JStr(T("1.0"))>>, <<"chain_id", JStr(T(c.id))>>,
                        <<"chain_hash", c.chainHash>>,
                        <<"event_count", JNum(Len(c.events))>>,
                        <<"issued_at", JStr(toISOString(n))>>,
                        <<"issuer", JStr(T("OpenExecution Sovereign"))>>,
                        <<"algorithm", JStr(T("Ed25519"))>> >>)
        sig == sign(canonicalize(data), CertIssuer(i).priv)
    IN JObj(data.o \o << <<"signature", JStr(sig)>>,
                         <<"public_key", JStr(T(CertIssuer(i).priv))>> >>)

\* CertIssuer.issue(chain) of issuer i at clock reading n
issue(i, c, n) ==
    LET data == JObj(<< <<"version", JStr(T("1.0"))>>, <<"chain_id", JStr(T(c.id))>>,
                        <<"chain_hash", c.chainHash>>,
                        <<"event_count", JNum(Len(c.events))>>,
                        <<"issued_at", JStr(toISOString(n))>>,
                        <<"issuer", JStr(T("OpenExecution Sovereign"))>>,
                        <<"algorithm", JStr(T("Ed25519"))>> >>)
        sig == sign(canonicalize(data), CertIssuer(i).priv)
    IN JObj(data.o \o << <<"signature", JStr(sig)>>,
                         <<"public_key", JStr(CertIssuer(i).pubHex)>> >>)

\* verify stripping the signature only, so that public_key stays in the
\* signed data
verify_keepsPublicKey(i, c) ==
    LET signature == Get(c, "signature").s
        data == Rest(c, {"signature"})
    IN verifySig(canonicalize(data), CertIssuer(i).pub, signature)

\* verify looking only at who signed, not at the signed data
verify_signerOnly(i, c) ==
    LET signature == Get(c, "signature").s
    IN Head(signature) = "ed25519<" \o CertIssuer(i).pub \o "|"

\* CertIssuer.verify(cert) of issuer i
verify(i, c) ==
    LET signature == Get(c, "signature").s
        data == Rest(c, {"signature", "public_key"})
    IN verifySig(canonicalize(data), CertIssuer(i).pub, signature)

IssueOp(i) ==
    /\ cert' = issue(i, chain, now)
    /\ lastOp' = [op |-> "issue", threw |-> FALSE, error |-> "", ret |-> cert',
                  issuer |-> i, was |-> chain.status]
    /\ UNCHANGED <<demo, tasks, canon, chain, now, sseClients, artifacts, report>>

\* verify blanking the signature of the certificate it is handed
VerifyOp_clearsSignature(i, c) ==
    /\ cert' = Put(cert, "signature", JStr(T("")))
    /\ lastOp' = [op |-> "verify", threw |-> FALSE, error |-> "", ret |-> verify(i, c),
                  issuer |-> i, arg |-> c]
    /\ UNCHANGED <<demo, tasks, canon, chain, now, sseClients, artifacts, report>>

VerifyOp(i, c) ==
    /\ lastOp' = [op |-> "verify", threw |-> FALSE, error |-> "", ret |-> verify(i, c),
                  issuer |-> i, arg |-> c]
    /\ UNCHANGED <<demo, tasks, canon, chain, now, cert, sseClients, artifacts, report>>

(* ------------------------- environment -------------------------------- *)
\* the wall clock advances
Tick ==
    /\ now < MaxTime
    /\ now' = now + 1
    /\ lastOp' = [op |-> "tick"]
    /\ UNCHANGED <<demo, tasks, canon, chain, cert, sseClients, artifacts, report>>

\* GET /events: sseClients.push(res)
SseConnect(r) ==
    /\ Len(sseClients) < MaxClients
    /\ r \notin Range(sseClients)
    /\ sseClients' = Append(sseClients, r)
    /\ lastOp' = [op |-> "connect"]
    /\ UNCHANGED <<demo, tasks, canon, chain, now, cert, artifacts, report>>

\* req.on('close'): sseClients = sseClients.filter(c => c !== res)
SseClose(r) ==
    /\ r \in Range(sseClients)
    /\ sseClients' = SelectSeq(sseClients, LAMBDA c : c # r)
    /\ lastOp' = [op |-> "close"]
    /\ UNCHANGED <<demo, tasks, canon, chain, now, cert, artifacts, report>>

(* ------------------------- specification ------------------------------ *)
Init ==
    /\ chain = NewChain(ChainId)
    /\ now = 0
    /\ cert = JNull
    /\ sseClients = << >>
    /\ lastOp = [op |-> "init"]
    /\ artifacts = JNull
    /\ report = JNull
    /\ canon = JNull
    /\ tasks = [t \in Tasks |-> "await"]
    /\ demo = DemoStart

DoAppend ==
    /\ \E in \in AppendInputs, failAt \in 0..Len(sseClients) :
          AppendOp(in.type, in.agent, in.org, in.payload, in.opts, failAt)
    /\ UNCHANGED <<tasks, demo>>

DoResolve == ResolveOp

DoIssue == \E i \in Issuers : IssueOp(i)

\* verify is handed the certificate issue returned
DoVerify ==
    /\ cert # JNull
    /\ \E i \in Issuers : VerifyOp(i, cert)

DoSse == \E r \in Clients : SseConnect(r) \/ SseClose(r)

\* class Chain under its callers: append and resolve in any order, the
\* clock advancing, no SSE client connected
Next ==
    \/ DoAppend
    \/ DoResolve
    \/ Tick

Spec == Init /\ [][Next]_vars

\* the same with dashboard clients connecting to and leaving /events
NextSse ==
    \/ DoAppend
    \/ DoResolve
    \/ DoSse

SpecSse == Init /\ [][NextSse]_vars

\* a caller hands append a payload that cannot be serialized
DoAppendUnserializable ==
    /\ \E in \in AppendInputs, failAt \in 0..Len(sseClients) :
          AppendOp(in.type, in.agent, in.org, PayloadCyclic, in.opts, failAt)
    /\ UNCHANGED <<tasks, demo>>

\* appends of which some fail in canonicalize, dashboard clients connected
NextFail ==
    \/ DoAppend
    \/ DoAppendUnserializable
    \/ DoSse

SpecFail == Init /\ [][NextFail]_vars

\* what a task appends: each task its own call
TaskCall(t) ==
    CHOOSE in \in AppendInputs :
        in.type = (CASE t = "task-1" -> "created"
                     [] t = "task-2" -> "updated"
                     [] t = "task-3" -> "pr_approved")

\* the promise a task awaits is settled: the task runs again
Resume(t) ==
    /\ tasks[t] = "await"
    /\ tasks' = [tasks EXCEPT ![t] = "running"]
    /\ lastOp' = [op |-> "resume"]
    /\ UNCHANGED <<demo, canon, chain, now, cert, sseClients, artifacts, report>>

\* an append suspended between reading events.length and events.push: the
\* event is computed from the chain as it was at some earlier moment
TaskAppend_staleRead(t) ==
    /\ tasks[t] = "running"
    /\ Len(chain.events) < MaxEvents
    /\ \E k \in 0..Len(chain.events) :
          LET in == TaskCall(t)
              ev == appendEvent([chain EXCEPT !.events = SubSeq(@, 1, k)], in.type, in.agent,
                                in.org, in.payload, in.opts, toISOString(now))
          IN /\ chain' = [chain EXCEPT !.events = Append(@, ev)]
             /\ lastOp' = [op |-> "append", threw |-> FALSE, error |-> "", ret |-> ev,
                           pushed |-> push(ev, 0), was |-> chain.status]
    /\ tasks' = [tasks EXCEPT ![t] = "await"]
    /\ UNCHANGED <<demo, canon, now, cert, sseClients, artifacts, report>>

\* a running task calls chain.append(...) and goes on to its next await.
\* append has no await: it is one step of the event loop.
TaskAppend(t) ==
    /\ tasks[t] = "running"
    /\ LET in == TaskCall(t)
       IN AppendOp(in.type, in.agent, in.org, in.payload, in.opts, 0)
    /\ tasks' = [tasks EXCEPT ![t] = "await"]
    /\ UNCHANGED demo

\* tasks resumed in any order, all appending to the one chain
NextTasks ==
    \E t \in Tasks : Resume(t) \/ TaskAppend(t)

SpecTasks == Init /\ [][NextTasks]_vars

(* ---------------- runDemo, ACT 6: AI review and merge ----------------- *)
\* what the review text of the model holds: whether its lower-case form
\* includes 'approve', and whether it includes 'reject'
ReviewTexts == [approve : BOOLEAN, reject : BOOLEAN]

\* reviewText.toLowerCase().includes('approve') && !...includes('reject')
aiApprovedOf(reviewText) == reviewText.approve /\ ~reviewText.reject

\* prRes.data.number || 2
prNum == 2

\* await glmChat(...) returns the review; aiApproved is computed
GlmReview ==
    /\ demo.pc = "start"
    /\ \E reviewText \in ReviewTexts :
          /\ demo' = [demo EXCEPT !.pc = "reviewed", !.aiApproved = aiApprovedOf(reviewText)]
          /\ lastOp' = [op |-> "review", text |-> reviewText]
    /\ UNCHANGED <<tasks, canon, chain, now, cert, sseClients, artifacts, report>>

\* chain.append('pr_reviewed', ...); then the if (aiApproved) in front of
\* the pr_approved append.  An exception of append (a failing write to a
\* dashboard client) leaves runDemo and ends the process.
AppendPrReviewed ==
    /\ demo.pc = "reviewed"
    /\ \E failAt \in 0..Len(sseClients) :
          /\ AppendOp("pr_reviewed", "review-bot", "CyberSafe Inc.",
                      JObj(<< <<"verdict", JStr(T(IF demo.aiApproved THEN "approved"
                                                  ELSE "rejected"))>> >>),
                      NoOpts, failAt)
          /\ demo' = [demo EXCEPT !.pc = IF failAt # 0 THEN "crashed"
                                         ELSE IF demo.aiApproved THEN "approve" ELSE "gate"]
    /\ UNCHANGED tasks

\* chain.append('pr_approved', ..., {authorization: true, ownerId: 'review-bot-1'})
AppendPrApproved ==
    /\ demo.pc = "approve"
    /\ \E failAt \in 0..Len(sseClients) :
          /\ AppendOp("pr_approved", "review-bot", "CyberSafe Inc.",
                      JObj(<< <<"pr_number", JNum(prNum)>>,
                              <<"approved_by", JStr(T("review-bot (GLM-4)"))>> >>),
                      [authorization |-> TRUE, ownerId |-> "review-bot-1"], failAt)
          /\ demo' = [demo EXCEPT !.pc = IF failAt # 0 THEN "crashed" ELSE "gate"]
    /\ UNCHANGED tasks

\* if (aiApproved) the pull request is merged on GitHub, else the merge is
\* reported as blocked; both branches go on to the same statement
MergeGate ==
    /\ demo.pc = "gate"
    /\ demo' = [demo EXCEPT !.pc = "merge"]
    /\ lastOp' = [op |-> "gate", merged |-> demo.aiApproved]
    /\ UNCHANGED <<tasks, canon, chain, now, cert, sseClients, artifacts, report>>

\* chain.append('pr_merged', ...), after the if/else
AppendPrMerged ==
    /\ demo.pc = "merge"
    /\ \E failAt \in 0..Len(sseClients) :
          /\ AppendOp("pr_merged", "patch-o-matic", "CyberSafe Inc.",
                      JObj(<< <<"pr_number", JNum(prNum)>>, <<"merged_to", JStr(T("main"))>> >>),
                      NoOpts, failAt)
          /\ demo' = [demo EXCEPT !.pc = IF failAt # 0 THEN "crashed" ELSE "done"]
    /\ UNCHANGED tasks

\* the clock advances while runDemo awaits
DemoTick == Tick /\ demo.pc \notin {"done", "crashed"}

\* dashboards connect to and leave /events while runDemo runs
DemoSse == DoSse /\ demo.pc \notin {"done", "crashed"}

NextReview ==
    \/ GlmReview
    \/ AppendPrReviewed
    \/ AppendPrApproved
    \/ MergeGate
    \/ AppendPrMerged
    \/ DemoTick
    \/ DemoSse

SpecReview == Init /\ [][NextReview]_vars

(* ------------- runDemo, ACT 3: the human instruction channel ----------- *)
\* request bodies: JSON with an instruction (the empty string among them)
\* and a body JSON.parse rejects
PostBodies ==
    { [json |-> TRUE, instruction |-> i] : i \in {"", "fix the vulnerability", "ship it"} }
    \cup { [json |-> FALSE, instruction |-> ""] }

\* runDemo: await waitForInstruction().  The executor stores resolve in
\* instructionResolve; runDemo is suspended on the new promise.
WaitForInstruction ==
    /\ demo.pc = "start"
    /\ demo' = [demo EXCEPT !.pc = "awaiting", !.instructionResolve = TRUE,
                            !.promise = [state |-> "pending", value |-> ""]]
    /\ lastOp' = [op |-> "wait"]
    /\ UNCHANGED <<tasks, canon, chain, now, cert, sseClients, artifacts, report>>

\* the handler resolving the waiting promise with whatever instruction the
\* body holds, the empty string too
PostInstruction_deliversEmpty(body) ==
    /\ demo.posts < MaxPosts
    /\ LET deliver == body.json /\ demo.instructionResolve
       IN /\ demo' = [demo EXCEPT
                        !.posts = @ + 1,
                        !.instructionResolve = IF deliver THEN FALSE ELSE @,
                        !.promise = IF deliver /\ @.state = "pending"
                                    THEN [state |-> "resolved", value |-> body.instruction]
                                    ELSE @]
          /\ lastOp' = [op |-> "post", json |-> body.json, instruction |-> body.instruction,
                        delivered |-> deliver,
                        status |-> IF body.json THEN 200 ELSE 400,
                        body |-> IF body.json THEN JSONstringify(JObj(<< <<"ok", JBool(TRUE)>> >>))
                                 ELSE T("Bad request")]
    /\ UNCHANGED <<tasks, canon, chain, now, cert, sseClients, artifacts, report>>

\* POST /instruction, req.on('end'): JSON.parse(body) in a try whose catch
\* answers 400; if (instruction && instructionResolve) the promise is
\* resolved and instructionResolve set to null; the answer is 200 {ok:true}
PostInstruction(body) ==
    /\ demo.posts < MaxPosts
    /\ LET deliver == body.json /\ body.instruction # "" /\ demo.instructionResolve
       IN /\ demo' = [demo EXCEPT
                        !.posts = @ + 1,
                        !.instructionResolve = IF deliver THEN FALSE ELSE @,
                        !.promise = IF deliver /\ @.state = "pending"
                                    THEN [state |-> "resolved", value |-> body.instruction]
                                    ELSE @]
          /\ lastOp' = [op |-> "post", json |-> body.json, instruction |-> body.instruction,
                        delivered |-> deliver,
                        status |-> IF body.json THEN 200 ELSE 400,
                        body |-> IF body.json THEN JSONstringify(JObj(<< <<"ok", JBool(TRUE)>> >>))
                                 ELSE T("Bad request")]
    /\ UNCHANGED <<tasks, canon, chain, now, cert, sseClients, artifacts, report>>

\* the promise is resolved: runDemo goes on with humanInstruction
InstructionReceived ==
    /\ demo.pc = "awaiting" /\ demo.promise.state = "resolved"
    /\ demo' = [demo EXCEPT !.pc = "instructed"]
    /\ lastOp' = [op |-> "instructed", humanInstruction |-> demo.promise.value]
    /\ UNCHANGED <<tasks, canon, chain, now, cert, sseClients, artifacts, report>>

\* chain.append('instruction_received', 'human-owner', ...)
AppendInstructionReceived ==
    /\ demo.pc = "instructed"
    /\ \E failAt \in 0..Len(sseClients) :
         /\ AppendOp("instruction_received", "human-owner", "CyberSafe Inc.",
                     JObj(<< <<"instruction", JStr(T(demo.promise.value))>>,
                             <<"scope", JStr(T("src/auth.js"))>> >>),
                     [authorization |-> TRUE, ownerId |-> "owner-ciso-1"], failAt)
         /\ demo' = [demo EXCEPT !.pc = IF failAt = 0 THEN "done" ELSE "crashed"]
    /\ UNCHANGED tasks

NextInstruction ==
    \/ WaitForInstruction
    \/ \E body \in PostBodies : PostInstruction(body)
    \/ InstructionReceived
    \/ AppendInstructionReceived
    \/ DemoSse

SpecInstruction == Init /\ [][NextInstruction]_vars

\* Chain and CertIssuer together, no SSE client connected
NextCert ==
    \/ DoAppend
    \/ DoResolve
    \/ DoIssue
    \/ DoVerify

SpecCert == Init /\ [][NextCert]_vars

(* ------------------- exported artifacts, verify.js --------------------- *)
\* the issuer runDemo constructs
DemoIssuer == "issuer-1"

\* execution-chain.json, certificate.json, verification-result.json and
\* public-key.json as runDemo writes them at clock reading n and verify.js
\* parses them back (JSON.parse of JSON.stringify returns these values as
\* they are); verified is what issuer.verify(cert) answered after issue
exportArtifacts(c, crt, i, n) ==
    [chain |-> JObj(<< <<"chain_id", JStr(T(c.id))>>, <<"status", JStr(T(c.status))>>,
                       <<"chain_hash", c.chainHash>>,
                       <<"event_count", JNum(Len(c.events))>>,
                       <<"events", JArr(c.events)>> >>),
     certificate |-> crt,
     verificationResult |->
         JObj(<< <<"verified", JBool(verify(i, crt))>>, <<"chain_hash", c.chainHash>>,
                 <<"certificate_signature_valid", JBool(TRUE)>>,
                 <<"hash_chain_intact", JBool(TRUE)>>,
                 <<"checked_at", JStr(toISOString(n))>> >>),
     publicKey |-> JObj(<< <<"algorithm", JStr(T("Ed25519"))>>,
                           <<"public_key", JStr(CertIssuer(i).pubHex)>>,
                           <<"format", JStr(T("DER (SPKI)"))>> >>),
     tamper |-> [kind |-> "none", seq |-> 0]]

ExportOp ==
    /\ cert # JNull
    /\ artifacts' = exportArtifacts(chain, cert, DemoIssuer, now)
    /\ lastOp' = [op |-> "export"]
    /\ UNCHANGED <<demo, tasks, canon, chain, now, cert, sseClients, report>>

StoredEvents(a) == Get(a.chain, "events").a

\* storage edit of run-demo-v2 ACT 5: jsonb_set(payload, '{tampered}', 'true')
\* on one stored event, no hash recomputed
TamperPayload(k) ==
    /\ artifacts # JNull /\ artifacts.tamper.kind = "none"
    /\ k \in 1..Len(StoredEvents(artifacts))
    /\ LET evs == StoredEvents(artifacts)
           ev == Put(evs[k], "payload", Put(Get(evs[k], "payload"), "tampered", JBool(TRUE)))
       IN artifacts' = [artifacts EXCEPT
                          !.chain = Put(@, "events", JArr([evs EXCEPT ![k] = ev])),
                          !.tamper = [kind |-> "payload", seq |-> k]]
    /\ lastOp' = [op |-> "tamper"]
    /\ UNCHANGED <<demo, tasks, canon, chain, now, cert, sseClients, report>>

\* storage edit: the event_hash of one stored event is overwritten
TamperEventHash(k) ==
    /\ artifacts # JNull /\ artifacts.tamper.kind = "none"
    /\ k \in 1..Len(StoredEvents(artifacts))
    /\ LET evs == StoredEvents(artifacts)
           ev == Put(evs[k], "event_hash", JStr(sha256(T("forged"))))
       IN artifacts' = [artifacts EXCEPT
                          !.chain = Put(@, "events", JArr([evs EXCEPT ![k] = ev])),
                          !.tamper = [kind |-> "event_hash", seq |-> k]]
    /\ lastOp' = [op |-> "tamper"]
    /\ UNCHANGED <<demo, tasks, canon, chain, now, cert, sseClients, report>>

\* storage edit: the last stored event is deleted
TamperDropLast ==
    /\ artifacts # JNull /\ artifacts.tamper.kind = "none"
    /\ Len(StoredEvents(artifacts)) >= 1
    /\ LET evs == StoredEvents(artifacts)
       IN artifacts' = [artifacts EXCEPT
                          !.chain = Put(@, "events", JArr(SubSeq(evs, 1, Len(evs) - 1))),
                          !.tamper = [kind |-> "drop", seq |-> Len(evs)]]
    /\ lastOp' = [op |-> "tamper"]
    /\ UNCHANGED <<demo, tasks, canon, chain, now, cert, sseClients, report>>

\* storage edit: the chain_hash of the stored certificate is overwritten
TamperCertHash ==
    /\ artifacts # JNull /\ artifacts.tamper.kind = "none"
    /\ artifacts' = [artifacts EXCEPT
                       !.certificate = Put(@, "chain_hash", JStr(sha256(T("forged")))),
                       !.tamper = [kind |-> "cert", seq |-> 0]]
    /\ lastOp' = [op |-> "tamper"]
    /\ UNCHANGED <<demo, tasks, canon, chain, now, cert, sseClients, report>>

\* crypto.createPublicKey({key: Buffer.from(hex, 'hex'), format: 'der', type: 'spki'})
createPublicKey(hex) ==
    CHOOSE pk \in {generateKeyPairSync(i).publicKey : i \in Issuers} : exportSpki(pk) = hex

\* the hash-linkage loop of verify.js
chainOk(events) ==
    \A i \in 1..Len(events) :
        Get(events[i], "prev_hash").s =
            IF i = 1 THEN repeat(T("0"), 64) ELSE Get(events[i - 1], "event_hash").s

\* verify.js over the three files.  The script prints its verdict and runs
\* to its end: it never calls process.exit, so node exits with code 0.
verifyJs(a) ==
    LET events == StoredEvents(a)
        hashes == [i \in 1..Len(events) |-> Get(events[i], "event_hash").s]
        computed == sha256(join(hashes, T(":")))
        certData == Rest(a.certificate, {"signature", "public_key"})
        pubKey == createPublicKey(Get(a.publicKey, "public_key").s)
        sigValid == verifySig(canonicalize(certData), pubKey, Get(a.certificate, "signature").s)
    IN [by |-> "verify.js", tamper |-> a.tamper,
        chainOk |-> chainOk(events),
        hashMatch |-> (JStr(computed) = Get(a.certificate, "chain_hash")),
        sigValid |-> sigValid,
        passed |-> (chainOk(events) /\ sigValid),
        exit |-> 0]

RunVerifyJs ==
    /\ artifacts # JNull
    /\ report' = verifyJs(artifacts)
    /\ lastOp' = [op |-> "verify.js"]
    /\ UNCHANGED <<demo, tasks, canon, chain, now, cert, sseClients, artifacts>>

\* chain integrity verification of the export script: the sequence numbers
\* of the events whose prev_hash is not the event_hash before them
RECURSIVE integrityErrors(_, _, _)
integrityErrors(events, i, prevHash) ==
    IF i > Len(events) THEN << >>
    ELSE (IF Get(events[i], "prev_hash").s # prevHash
          THEN <<Get(events[i], "sequence").n>> ELSE << >>)
         \o integrityErrors(events, i + 1, Get(events[i], "event_hash").s)

exportIntegrity(a) ==
    LET errors == integrityErrors(StoredEvents(a), 1, repeat(T("0"), 64))
    IN [by |-> "export", tamper |-> a.tamper,
        is_valid |-> (Len(errors) = 0), errors |-> errors]

RunExportIntegrity ==
    /\ artifacts # JNull
    /\ report' = exportIntegrity(artifacts)
    /\ lastOp' = [op |-> "integrity"]
    /\ UNCHANGED <<demo, tasks, canon, chain, now, cert, sseClients, artifacts>>

\* ACT 4 linkage check of the v2 orchestrator: stops at the first mismatch
RECURSIVE linkageValid(_, _, _)
linkageValid(events, i, expectedPrev) ==
    IF i > Len(events) THEN TRUE
    ELSE IF Get(events[i], "prev_hash").s # expectedPrev THEN FALSE
    ELSE linkageValid(events, i + 1, Get(events[i], "event_hash").s)

RunLinkageCheck ==
    /\ artifacts # JNull
    /\ report' = [by |-> "act4", tamper |-> artifacts.tamper,
                  valid |-> linkageValid(StoredEvents(artifacts), 1, repeat(T("0"), 64))]
    /\ lastOp' = [op |-> "act4"]
    /\ UNCHANGED <<demo, tasks, canon, chain, now, cert, sseClients, artifacts>>

\* runDemo's order: the appends, resolve, issue, then the artifacts
RunDemoStep ==
    /\ artifacts = JNull /\ cert = JNull
    /\ \/ chain.status = "active" /\ DoAppend
       \/ chain.status = "active" /\ DoResolve
       \/ chain.status = "resolved" /\ IssueOp(DemoIssuer)

DoExport == artifacts = JNull /\ ExportOp

DoTamper ==
    \/ \E k \in 1..MaxEvents : TamperPayload(k) \/ TamperEventHash(k)
    \/ TamperDropLast
    \/ TamperCertHash

DoAudit == RunVerifyJs \/ RunExportIntegrity \/ RunLinkageCheck

NextAudit ==
    \/ RunDemoStep
    \/ DoExport
    \/ DoTamper
    \/ DoAudit

SpecAudit == Init /\ [][NextAudit]_vars

\* the same run with issuer.verify(cert) called at any time after issue
NextReadOnly ==
    \/ NextAudit
    \/ DoVerify

SpecReadOnly == Init /\ [][NextReadOnly]_vars

(* ------------------- certificates changed in transit ------------------ *)
\* copies of an issued certificate with one signed value or the signature
\* changed: a signature that no key made, the signature the other issuer
\* makes over the same data, another chain_hash, another event_count
Forgeries(c) ==
    LET data == Rest(c, {"signature", "public_key"})
        issuer == CHOOSE i \in Issuers : JStr(CertIssuer(i).pubHex) = Get(c, "public_key")
    IN { Put(c, "signature", JStr(T("ed25519<forged>"))),
         Put(c, "chain_hash", JStr(sha256(T("forged")))),
         Put(c, "event_count", JNum(Get(c, "event_count").n + 1)) }
       \cup { Put(c, "signature", JStr(sign(canonicalize(data), CertIssuer(j).priv))) :
                 j \in Issuers \ {issuer} }

\* verify is handed a changed copy of the certificate issue returned
DoVerifyForged ==
    /\ cert # JNull
    /\ \E i \in Issuers, f \in Forgeries(cert) : VerifyOp(i, f)

\* runDemo up to the certificate, which is changed on its way to verify
NextForge ==
    \/ RunDemoStep
    \/ DoVerifyForged

SpecForge == Init /\ [][NextForge]_vars

(* ---------------- canonicalize as a function of its argument ----------- *)
\* the values handed to canonicalize: values that are not objects, objects
\* with two properties in either insertion order, arrays, and objects that
\* hold such an object; among them NaN, Infinity, undefined, a function and
\* a cyclic reference, at the top and nested
CanonLeaves == {JNum(1), JStr(T("a")), JNull, JBool(TRUE), JNaN, JInfinity, JUndefined, JFunction}
InnerLeaves == {JNum(1), JStr(T("a")), JNaN, JUndefined, JCycle}
Members2(k1, V1, k2, V2) ==
    { << <<k1, a>>, <<k2, b>> >> : a \in V1, b \in V2 }
    \cup { << <<k2, b>>, <<k1, a>> >> : a \in V1, b \in V2 }
InnerObjects == { JObj(m) : m \in Members2("x", InnerLeaves, "y", InnerLeaves) }
CanonInputs ==
    CanonLeaves
    \cup InnerObjects
    \cup { JArr(<<o, l>>) : o \in InnerObjects, l \in {JNum(1), JUndefined} }
    \cup { JObj(m) : m \in Members2("payload", InnerObjects,
                                     "seq", {JNum(1), JInfinity, JFunction}) }

\* a call canonicalize(value) of one of the copies.  On a cyclic value the
\* recursion has no end and the engine throws RangeError (maximum call
\* stack size exceeded); on every other value the function returns.
CanonicalizeOp(copy) ==
    /\ canon # JNull /\ canon.out = JNull
    /\ canon' = [canon EXCEPT !.out =
                    IF HasCycle(canon.value)
                    THEN [by |-> copy, threw |-> TRUE, error |-> "RangeError", text |-> << >>]
                    ELSE [by |-> copy, threw |-> FALSE, error |-> "",
                          text |-> canonicalizeOf(copy, canon.value)]]
    /\ lastOp' = [op |-> "canonicalize"]
    /\ UNCHANGED <<demo, tasks, chain, now, cert, sseClients, artifacts, report>>

InitCanon ==
    /\ chain = NewChain(ChainId)
    /\ now = 0
    /\ cert = JNull
    /\ sseClients = << >>
    /\ lastOp = [op |-> "init"]
    /\ artifacts = JNull
    /\ report = JNull
    /\ canon \in { [value |-> v, out |-> JNull] : v \in CanonInputs }
    /\ tasks = [t \in Tasks |-> "await"]
    /\ demo = DemoStart

NextCanon == \E copy \in Copies : CanonicalizeOp(copy)

SpecCanon == InitCanon /\ [][NextCanon]_vars

(* ============================== claims ================================ *)
Events == chain.events
EventHash(i) == Get(Events[i], "event_hash").s
PrevHash(i) == Get(Events[i], "prev_hash").s

\* 64 ASCII '0' characters, written out independently of GENESIS
Zeros64 == [k \in 1..64 |-> "0"]

\* C1: after any sequence of append calls the first event's prev_hash is
\* GENESIS, exactly 64 characters '0', and every later event's prev_hash
\* is the event_hash of the event stored immediately before it.
C1_PrevHashLinkage ==
    \A i \in 1..Len(Events) :
        PrevHash(i) = IF i = 1 THEN Zeros64 ELSE EventHash(i - 1)

C1_Witness == Len(Events) = 3 /\ lastOp.op = "append"

\* C2: append on a chain whose status is resolved fails with
\* ChainClosedError and adds no event: the event list of a resolved chain
\* is the same in every later state.
C2_ResolvedChainKeepsEvents ==
    [][chain.status = "resolved" => chain'.events = chain.events]_vars

\* C3: for every event produced by append, the hash recomputed over the
\* canonical form of the event's own stored fields other than event_hash
\* equals the stored event_hash.
C3_EventHashRoundTrip ==
    \A i \in 1..Len(Events) :
        sha256(canonicalize(Rest(Events[i], {"event_hash"}))) = EventHash(i)

\* what an integrity check answered: TRUE for intact
Intact(r) ==
    CASE r.by = "verify.js" -> r.chainOk
      [] r.by = "export" -> r.is_valid
      [] r.by = "act4" -> r.valid

\* C4: for a chain built only by append the integrity check returns
\* valid=true with no broken sequences; after one payload field of one
\* stored event is changed without recomputing any hash it returns
\* valid=false and lists exactly that event's sequence number.
C4_IntegrityDetectsPayloadEdit ==
    report # JNull =>
        /\ report.tamper.kind = "none" =>
               Intact(report) /\ (report.by = "export" => report.errors = << >>)
        /\ report.tamper.kind = "payload" =>
               ~Intact(report) /\ (report.by = "export" => report.errors = <<report.tamper.seq>>)

\* C5: the standalone verifier reports overall success only when hash-chain
\* integrity, chain-hash match and signature validity all pass; if any one
\* of the three fails the overall verdict is failure.
C5_VerdictNeedsAllThree ==
    (report # JNull /\ report.by = "verify.js") =>
        (report.passed <=> (report.chainOk /\ report.hashMatch /\ report.sigValid))


\* C6: issue fails with ChainNotResolvedError whenever the chain is not
\* resolved, so no certificate with a null chain_hash is ever produced.
C6_IssueNeedsResolvedChain ==
    /\ (lastOp.op = "issue" /\ lastOp.was # "resolved") =>
           (lastOp.threw /\ lastOp.error = "ChainNotResolvedError")
    /\ cert # JNull => Get(cert, "chain_hash") # JNull

\* the event hashes in append order with ':' between them, folded from
\* the left
RECURSIVE HashesJoined(_, _)
HashesJoined(events, n) ==
    IF n = 0 THEN << >>
    ELSE IF n = 1 THEN Get(events[1], "event_hash").s
    ELSE HashesJoined(events, n - 1) \o <<":">> \o Get(events[n], "event_hash").s

\* C7: resolve sets status to resolved, sets chain_hash to the SHA-256 of
\* the event_hash values of all events in append order joined with ':',
\* and returns that value.
C7_ResolveSetsChainHash ==
    lastOp.op = "resolve" =>
        /\ chain.status = "resolved"
        /\ chain.chainHash = JStr(<<"sha256<">> \o HashesJoined(Events, Len(Events)) \o <<">">>)
        /\ lastOp.ret = chain.chainHash

C7_Witness == lastOp.op = "resolve" /\ Len(Events) = 3

\* C8: chain_hash is computed exactly once: once resolve has set it, it has
\* the same value in every later state.
C8_ChainHashSetOnce ==
    [][chain.chainHash # JNull => chain'.chainHash = chain.chainHash]_vars

\* C9: a second call to resolve either fails with AlreadyResolvedError or
\* is idempotent: it returns the chain_hash of the first call and leaves
\* events, status and chain_hash unchanged.
C9_SecondResolve ==
    [][(chain.status = "resolved" /\ lastOp'.op = "resolve") =>
          \/ lastOp'.threw /\ lastOp'.error = "AlreadyResolvedError"
          \/ chain' = chain /\ lastOp'.ret = chain.chainHash]_vars

\* the certificate at hand was issued by issuer i from a resolved chain
IssuedBy(i) ==
    /\ cert # JNull
    /\ Get(cert, "public_key").s = CertIssuer(i).pubHex
    /\ Get(cert, "chain_hash") # JNull

\* C10: for every resolved chain, the certificate returned by issue,
\* passed unmodified to verify of the same issuer, yields true.
C10_IssueThenVerify ==
    (lastOp.op = "verify" /\ lastOp.arg = cert /\ IssuedBy(lastOp.issuer)) =>
        lastOp.ret = TRUE

C10_Witness ==
    /\ lastOp.op = "verify" /\ lastOp.arg = cert /\ IssuedBy(lastOp.issuer)
    /\ Get(cert, "event_count").n = 2
    /\ lastOp.ret = TRUE

\* C11: a copy of an issued certificate in which the signature, the
\* chain_hash or the event_count (and nothing else) has another value is
\* rejected by verify of the issuer that issued it.
SignedOrSignature == {"signature", "chain_hash", "event_count"}
IsForgeryOf(f, c) ==
    /\ f # c
    /\ Rest(f, SignedOrSignature) = Rest(c, SignedOrSignature)
IssuerOf(c) == CHOOSE i \in Issuers : JStr(CertIssuer(i).pubHex) = Get(c, "public_key")
ValidUnderEmbeddedKey(c) ==
    verifySig(canonicalize(Rest(c, {"signature", "public_key"})),
              createPublicKey(Get(c, "public_key").s), Get(c, "signature").s)
C12_VerifyUsesEmbeddedKey ==
    lastOp.op = "verify" => (lastOp.ret <=> ValidUnderEmbeddedKey(lastOp.arg))

\* the event_hash of a stored event recomputed the way append computed it
RecomputedHash(e) ==
    sha256(canonicalize(JObj(<< <<"seq", Get(e, "sequence")>>,
                                <<"event_type", Get(e, "event_type")>>,
                                <<"agent_name", Get(e, "agent_name")>>,
                                <<"timestamp", Get(e, "timestamp")>>,
                                <<"payload", Get(e, "payload")>>,
                                <<"prev_hash", Get(e, "prev_hash")>> >>)))
\* the stored events whose prev_hash or event_hash disagrees with
\* recomputation, as sequence numbers in chain order
Broken(events, i) ==
    \/ Get(events[i], "prev_hash").s #
           (IF i = 1 THEN Zeros64 ELSE Get(events[i - 1], "event_hash").s)
    \/ Get(events[i], "event_hash").s # RecomputedHash(events[i])
RECURSIVE BrokenSeqs(_, _)
BrokenSeqs(events, i) ==
    IF i > Len(events) THEN << >>
    ELSE (IF Broken(events, i) THEN <<Get(events[i], "sequence").n>> ELSE << >>)
         \o BrokenSeqs(events, i + 1)
\* C13: the integrity check lists the sequence number of every stored
\* event whose prev_hash or event_hash disagrees with recomputation, all of
\* them and not only the first.
C13_EveryBrokenEventReported ==
    (report # JNull /\ report.by = "export" /\ report.tamper = artifacts.tamper) =>
        report.errors = BrokenSeqs(StoredEvents(artifacts), 1)

\* C14: the standalone verifier exits with code 0 exactly when every one of
\* its checks succeeded, and with a nonzero code when any of them failed.
C14_ExitCodeTellsVerdict ==
    (report # JNull /\ report.by = "verify.js") =>
        (report.exit = 0 <=> (report.chainOk /\ report.hashMatch /\ report.sigValid))

\* the opts a caller can pass: none, authorization with the default owner,
\* authorization with an owner
OptsChoices ==
    {NoOpts, [authorization |-> TRUE, ownerId |-> ""],
     [authorization |-> TRUE, ownerId |-> "review-bot-1"]}
\* the event the last append would have returned had it been called with opts
LastAppendWith(opts) ==
    LET e == Events[Len(Events)]
    IN appendEvent([chain EXCEPT !.events = SubSeq(Events, 1, Len(Events) - 1)],
                   Get(e, "event_type").s[1], Get(e, "agent_name").s[1],
                   Get(e, "organization").s[1], Get(e, "payload"), opts,
                   Get(e, "timestamp").s)
\* C15: the authorization flag and the owner id are hashed: an append that
\* differs from the one made only in these options gives another
\* event_hash, and a stored event whose flag or owner is changed no longer
\* matches its recomputed event_hash.
C15_AuthorizationIsHashed ==
    lastOp.op = "append" =>
        /\ \A opts \in OptsChoices :
              LastAppendWith(opts) # Events[Len(Events)] =>
                  Get(LastAppendWith(opts), "event_hash") # Get(Events[Len(Events)], "event_hash")
        /\ \A i \in 1..Len(Events) :
              RecomputedHash(Put(Put(Events[i], "authorization_event", JBool(TRUE)),
                                 "owner_user_id", JStr(T("intruder")))) # EventHash(i)

\* C16: sequence numbers are dense and start at 1: the event at position i
\* of the chain has sequence number i.
C16_SequenceIsPosition ==
    \A i \in 1..Len(Events) : Get(Events[i], "sequence") = JNum(i)
\* three events have been appended, the last of them numbered 3
C16_Witness ==
    /\ lastOp.op = "append" /\ Len(Events) = MaxEvents
    /\ Get(lastOp.ret, "sequence") = JNum(MaxEvents)

\* C17: an observer that fails does not abort the append: whatever the
\* writes to the dashboard clients do, append returns the new event, and
\* the chain holds it as its one new, correctly linked last event.
C17_FailingObserverKeepsAppend ==
    lastOp.op = "append" =>
        /\ ~lastOp.threw
        /\ lastOp.ret = Events[Len(Events)]
        /\ PrevHash(Len(Events)) =
               (IF Len(Events) = 1 THEN Zeros64 ELSE EventHash(Len(Events) - 1))

\* the same value up to the insertion order of the properties of its
\* objects, at every depth
RECURSIVE SameMapping(_, _)
SameMapping(a, b) ==
    /\ a.t = b.t
    /\ CASE a.t = "obj" ->
               /\ Len(a.o) = Len(b.o)
               /\ \A i \in 1..Len(a.o) :
                      /\ HasKey(b, a.o[i][1])
                      /\ SameMapping(a.o[i][2], Get(b, a.o[i][1]))
          [] a.t = "arr" ->
               /\ Len(a.a) = Len(b.a)
               /\ \A i \in 1..Len(a.a) : SameMapping(a.a[i], b.a[i])
          [] OTHER -> a = b
\* C18: canonicalize gives the same text for every insertion order of the
\* keys of a mapping, nested mappings included.
C18_KeyOrderDoesNotMatter ==
    (canon # JNull /\ canon.out # JNull /\ ~canon.out.threw) =>
        \A w \in CanonInputs :
            SameMapping(w, canon.value) => canonicalize(w) = canon.out.text
\* canonicalize has returned for an object whose keys, and whose nested
\* object's keys, were inserted in descending order
C18_Witness ==
    /\ canon # JNull /\ canon.out # JNull /\ ~canon.out.threw
    /\ canon.value.t = "obj" /\ canon.value.o[1][1] = "seq"
    /\ Get(canon.value, "payload").o[1][1] = "y"
    /\ \E w \in CanonInputs : w # canon.value /\ SameMapping(w, canon.value)

\* a value JSON cannot encode stands somewhere in v: a non-finite number,
\* undefined, a function or a cyclic reference
RECURSIVE HasUnsupported(_)
HasUnsupported(v) ==
    CASE v.t \in {"nan", "inf", "undefined", "function", "cycle"} -> TRUE
      [] v.t = "arr" -> \E i \in 1..Len(v.a) : HasUnsupported(v.a[i])
      [] v.t = "obj" -> \E i \in 1..Len(v.o) : HasUnsupported(v.o[i][2])
      [] OTHER -> FALSE
\* C19: canonicalize fails with SerializationError when its input holds, at
\* any depth, a non-finite number, a cyclic reference, undefined or a
\* function.
C19_UnsupportedValueFails ==
    (canon # JNull /\ canon.out # JNull /\ HasUnsupported(canon.value)) =>
        (canon.out.threw /\ canon.out.error = "SerializationError")

\* the private keys of the issuers, as they are and in an exported encoding
SecretTokens ==
    UNION { {CertIssuer(i).priv, "pkcs8:" \o CertIssuer(i).priv,
             "spki:" \o CertIssuer(i).priv} : i \in Issuers }
\* every text that leaves the process: the certificate issue returned, the
\* artifact files, the message of the last append pushed to the dashboard
ExportedTexts ==
    (IF cert # JNull THEN {JSONstringify(cert)} ELSE {})
    \cup (IF artifacts # JNull
          THEN {JSONstringify(artifacts.chain), JSONstringify(artifacts.certificate),
                JSONstringify(artifacts.verificationResult),
                JSONstringify(artifacts.publicKey)}
          ELSE {})
    \cup (IF lastOp.op = "append" THEN {lastOp.pushed.msg} ELSE {})
\* C20: the private key of the issuer appears in no exported artifact: not
\* in the certificate, the exported chain, the public-key file, the
\* verification result or a pushed message.
C20_PrivateKeyStaysInside ==
    \A text \in ExportedTexts : \A k \in 1..Len(text) : text[k] \notin SecretTokens
\* the four artifact files of a signed chain with events have been written
C20_Witness ==
    /\ artifacts # JNull /\ artifacts.tamper.kind = "none"
    /\ Len(StoredEvents(artifacts)) >= 1
    /\ Get(artifacts.certificate, "public_key") = JStr(CertIssuer(DemoIssuer).pubHex)
    /\ Get(artifacts.verificationResult, "verified") = JBool(TRUE)

\* C21: issue, verify and the integrity checks only read: a step of one of
\* them leaves the events, status and chain_hash of the chain and the
\* stored artifacts as they were, verify leaves the certificate it was
\* handed as it was, and verify called again on it gives the same answer.
ReadOnlyOps == {"issue", "verify", "verify.js", "integrity", "act4"}
C21_ChecksOnlyRead ==
    [][lastOp'.op \in ReadOnlyOps =>
         /\ chain' = chain
         /\ artifacts' = artifacts
         /\ lastOp'.op # "issue" => cert' = cert
         /\ lastOp'.op = "verify" =>
               /\ lastOp'.arg = cert'
               /\ verify(lastOp'.issuer, cert') = lastOp'.ret]_vars
\* verify has answered for the certificate of a resolved chain with
\* events, after verify.js ran over the exported artifacts
C21_Witness ==
    /\ lastOp.op = "verify" /\ lastOp.arg = cert
    /\ chain.status = "resolved" /\ Len(Events) >= 1
    /\ report # JNull /\ artifacts # JNull

\* C22: the copies of canonicalize (export script, live driver, v2
\* orchestrator, generated verify.js) return the same text for every value
\* built from null, booleans, numbers, strings, arrays and mappings.
C22_CopiesAgree ==
    (canon # JNull /\ canon.out # JNull /\ ~canon.out.threw) =>
        \A copy \in Copies : canonicalizeOf(copy, canon.value) = canon.out.text
\* the v2 orchestrator's copy has returned for an object that holds an
\* object, both with their keys inserted in descending order
C22_Witness ==
    /\ canon # JNull /\ canon.out # JNull /\ ~canon.out.threw
    /\ canon.out.by = "v2"
    /\ canon.value.t = "obj" /\ canon.value.o[1][1] = "seq"
    /\ Get(canon.value, "payload").o[1][1] = "y"
    /\ ~HasUnsupported(canon.value)

C24_CertificateDescribesOneList ==
    lastOp.op = "issue" =>
        /\ Get(lastOp.ret, "event_count") = JNum(Len(Events))
        /\ Get(lastOp.ret, "chain_hash") = JStr(sha256(HashesJoined(Events, Len(Events))))

\* ids a chain can be constructed with
ChainIds == {ChainId, "cve-2026-0001-remediation"}
\* C25: chain_hash depends on the ordered event_hash values only, not on
\* chain_id: a chain with another id that holds the same events resolves to
\* the chain_hash this chain resolved to.
C25_ChainHashIgnoresChainId ==
    lastOp.op = "resolve" =>
        \A id \in ChainIds :
            resolve([NewChain(id) EXCEPT !.events = Events]).chainHash = lastOp.ret
\* a chain of three events has been resolved
C25_Witness ==
    /\ lastOp.op = "resolve" /\ Len(Events) = MaxEvents
    /\ chain.id = ChainId /\ chain.chainHash = lastOp.ret

\* C26: whatever the order in which asynchronous tasks are resumed and
\* call append on the one chain, no two events carry the same sequence
\* number and every prev_hash is the event_hash before it (the genesis
\* value for the first), with no lock around append.
C26_InterleavedAppendsStayLinked ==
    /\ \A i, j \in 1..Len(Events) :
           i # j => Get(Events[i], "sequence") # Get(Events[j], "sequence")
    /\ \A i \in 1..Len(Events) :
           PrevHash(i) = (IF i = 1 THEN Zeros64 ELSE EventHash(i - 1))
\* both tasks were running at once and both have appended, the second
\* after the first
C26_Witness ==
    /\ Len(Events) >= 2
    /\ Get(Events[1], "event_type") # Get(Events[2], "event_type")
    /\ lastOp.op = "append"
    /\ \E t \in Tasks : tasks[t] = "running"

\* C27: an append that fails while the payload is serialized or hashed
\* leaves the chain unchanged and notifies no observer, and the next
\* append that succeeds gets the sequence number the failed one would have
\* had: the number after the events the chain holds.
C27_FailedAppendLeavesChain ==
    [][lastOp'.op = "append" =>
         /\ (lastOp'.threw /\ lastOp'.error = "RangeError") =>
               (chain' = chain /\ lastOp'.pushed.to = << >> /\ lastOp'.pushed.msg = << >>)
         /\ ~lastOp'.threw =>
               Get(lastOp'.ret, "sequence") = JNum(Len(chain.events) + 1)]_vars
\* an append has failed in canonicalize on a chain that holds events,
\* with a dashboard client connected
C27_Witness ==
    /\ lastOp.op = "append" /\ lastOp.threw /\ lastOp.error = "RangeError"
    /\ Len(Events) >= 1 /\ Len(sseClients) = 1

\* C28: in every reachable state the status of the chain is resolved
\* exactly when its chain_hash is set, and a resolved chain never becomes
\* active again.
StatusMatchesChainHash(c) == (c.status = "resolved") <=> (c.chainHash # JNull)
C28_StatusFollowsChainHash ==
    [][/\ StatusMatchesChainHash(chain)
       /\ StatusMatchesChainHash(chain')
       /\ chain.status = "resolved" => chain'.status = "resolved"]_vars
\* an append has been made to a chain that was resolved before it
C28_Witness ==
    /\ lastOp.op = "append" /\ lastOp.was = "resolved"
    /\ chain.status = "resolved" /\ chain.chainHash # JNull

\* C29: runDemo appends pr_merged only if the AI review approved and a
\* pr_approved event was appended before it; when the review rejects, the
\* chain holds no pr_merged event.
TypeAt(i) == Get(Events[i], "event_type")
C29_MergedOnlyAfterApproval ==
    \A i \in 1..Len(Events) :
        TypeAt(i) = JStr(T("pr_merged")) =>
            /\ demo.aiApproved
            /\ \E j \in 1..(i - 1) : TypeAt(j) = JStr(T("pr_approved"))

\* C30: an instruction POSTed while no waitForInstruction is pending is
\* answered {ok:true} and dropped, a wait that starts later gets nothing of
\* it, and a pending wait is resolved once, by the first non-empty
\* instruction POSTed after it began.
OkTrue == JSONstringify(JObj(<< <<"ok", JBool(TRUE)>> >>))
C30_InstructionChannel ==
    [][/\ (lastOp'.op = "post" /\ lastOp'.json /\ ~demo.instructionResolve) =>
             /\ lastOp'.status = 200 /\ lastOp'.body = OkTrue
             /\ demo'.promise = demo.promise
             /\ ~demo'.instructionResolve
       /\ (lastOp'.op = "post" /\ lastOp'.json /\ lastOp'.instruction # ""
             /\ demo.instructionResolve) =>
             /\ demo.promise.state = "pending"
             /\ demo'.promise = [state |-> "resolved", value |-> lastOp'.instruction]
             /\ ~demo'.instructionResolve
       /\ lastOp'.op = "wait" => demo'.promise = [state |-> "pending", value |-> ""]
       /\ demo.promise.state = "resolved" => demo'.promise = demo.promise
       /\ (demo.promise.state # "resolved" /\ demo'.promise.state = "resolved") =>
             /\ lastOp'.op = "post" /\ lastOp'.instruction # ""
             /\ demo'.promise.value = lastOp'.instruction]_vars
\* the wait was resolved by an instruction and a later instruction was
\* answered and dropped
C30_Witness ==
    /\ demo.promise.state = "resolved" /\ demo.promise.value # ""
    /\ lastOp.op = "post" /\ lastOp.instruction \notin {"", demo.promise.value}
    /\ ~lastOp.delivered /\ lastOp.status = 200
    /\ demo.posts = MaxPosts

====
